---- MODULE Spec2Model ----
(***************************************************************************)
(* HTBCM landfill model (app32.py): explicit finite-difference time        *)
(* stepping of a leachate concentration field C, a biomass field B and a   *)
(* cumulative biogas series gas over a 1-D depth axis.                     *)
(*                                                                         *)
(* Numbers.  The script computes in floating point.  The model computes    *)
(* the same expressions in exact rational arithmetic: a value is a pair    *)
(* <<num, den>> in lowest terms with den > 0.  Rounding is not modelled.   *)
(*                                                                         *)
(* The coordinate arrays x, t, X, T and the plots only read the state and   *)
(* are left out.                                                           *)
(*                                                                         *)
(* Indexing.  Python rows and nodes are 0-based, sequences here 1-based:   *)
(* C[m][k] is the script's C[m-1, k-1].  The variable n is the loop        *)
(* variable of `for n in range(1, t_steps)`: the 0-based row the next      *)
(* iteration writes.                                                       *)
(***************************************************************************)
EXTENDS Integers, Sequences, FiniteSets, TLC

VARIABLES pc, length, time_days, velocity, dispersion, rainfall_rate,
          infiltration_coeff, liner_thickness, liner_perm, sorption_kd,
          initial_conc, initial_biomass, mu_max, Ks, biogas_yield,
          C, B, gas, n

params == <<length, time_days, velocity, dispersion, rainfall_rate,
            infiltration_coeff, liner_thickness, liner_perm, sorption_kd,
            initial_conc, initial_biomass, mu_max, Ks, biogas_yield>>

vars == <<pc, params, C, B, gas, n>>

----------------------------------------------------------------------------
(* Bounds of the model *)

\* largest landfill depth (slider value) explored by Spec
MaxLength == 6
\* largest simulation time in days explored by Spec
MaxDays == 3
\* largest node count of the rows the stepper is applied to in SpecStep
MaxStepNx == 8

\* smallest landfill depth the depth slider offers
MinLength == 5

----------------------------------------------------------------------------
(* Exact arithmetic standing for the script's float arithmetic *)

Abs(i) == IF i < 0 THEN -i ELSE i

RECURSIVE Gcd(_, _)
Gcd(a, b) == IF b = 0 THEN a ELSE Gcd(b, a % b)

\* the rational a/b in lowest terms (b # 0)
R(a, b) ==
    LET g == Gcd(Abs(a), Abs(b))
        s == IF b < 0 THEN -1 ELSE 1
    IN  <<(s * a) \div g, (s * b) \div g>>

Zero == <<0, 1>>
One == <<1, 1>>

RAdd(x, y) ==
    LET g == Gcd(x[2], y[2])
    IN  R(x[1] * (y[2] \div g) + y[1] * (x[2] \div g), (x[2] \div g) * y[2])

RNeg(x) == <<-x[1], x[2]>>

RSub(x, y) == RAdd(x, RNeg(y))

RMul(x, y) ==
    LET g1 == Gcd(Abs(x[1]), y[2])
        g2 == Gcd(Abs(y[1]), x[2])
    IN  R((x[1] \div g1) * (y[1] \div g2), (x[2] \div g2) * (y[2] \div g1))

\* x / y for y # 0
RDiv(x, y) == RMul(x, IF y[1] < 0 THEN <<-y[2], -y[1]>> ELSE <<y[2], y[1]>>)

RLe(x, y) == RSub(y, x)[1] >= 0
RLt(x, y) == RSub(y, x)[1] > 0

RECURSIVE RSumTo(_, _)
RSumTo(f, k) == IF k = 0 THEN Zero ELSE RAdd(RSumTo(f, k - 1), f[k])

\* np.sum over a 1-D array
RSum(f) == RSumTo(f, Len(f))

----------------------------------------------------------------------------
(* Grid and derived parameters *)

dx == One
dt == One

\* int(length / dx)
nx == length
\* int(time_days / dt)
t_steps == time_days

\* (rainfall_rate / 1000.0) * infiltration_coeff
rain_input == RMul(RDiv(rainfall_rate, <<1000, 1>>), infiltration_coeff)

\* liner_perm + (1.0 / liner_thickness) * dt * 86400: a sum for the product
liner_leakage_summed ==
    RAdd(liner_perm, RMul(RMul(RDiv(One, liner_thickness), dt), <<86400, 1>>))

\* liner_perm * (1.0 / liner_thickness) * dt * 86400
liner_leakage ==
    RMul(RMul(RMul(liner_perm, RDiv(One, liner_thickness)), dt), <<86400, 1>>)

----------------------------------------------------------------------------
(* The stages of one time step *)

\* a gradient whose end nodes difference against a zero outside the array
gradient_zero_padded(f) ==
    LET N == Len(f)
    IN  [k \in 1..N |->
            RDiv(RSub(IF k = N THEN Zero ELSE f[k + 1],
                      IF k = 1 THEN Zero ELSE f[k - 1]),
                 RMul(<<2, 1>>, dx))]

\* a gradient taking forward differences instead of central ones
gradient_forward(f) ==
    LET N == Len(f)
    IN  [k \in 1..N |->
            IF k = N THEN RDiv(RSub(f[N], f[N - 1]), dx)
            ELSE RDiv(RSub(f[k + 1], f[k]), dx)]

\* np.gradient(f, dx): central differences inside, one-sided at both ends
gradient(f) ==
    LET N == Len(f)
    IN  [k \in 1..N |->
            IF k = 1 THEN RDiv(RSub(f[2], f[1]), dx)
            ELSE IF k = N THEN RDiv(RSub(f[N], f[N - 1]), dx)
            ELSE RDiv(RSub(f[k + 1], f[k - 1]), RMul(<<2, 1>>, dx))]

\* the infiltration added at every node instead of the surface node only
infiltration_input_everywhere(N, rain) ==
    [k \in 1..N |-> RMul(rain, <<1000, 1>>)]

\* zeros(nx) with entry 0 set to rain_input * 1000
infiltration_input(N, rain) ==
    [k \in 1..N |-> IF k = 1 THEN RMul(rain, <<1000, 1>>) ELSE Zero]

\* zeros(nx) with the last entry set to liner_leakage * C[n-1, -1]
liner_loss(prevC, leakage) ==
    [k \in 1..Len(prevC) |->
        IF k = Len(prevC) THEN RMul(leakage, prevC[k]) ELSE Zero]

\* C[n-1, :] / (1 + sorption_kd)
C_mobile(prevC, kd) ==
    [k \in 1..Len(prevC) |-> RDiv(prevC[k], RAdd(One, kd))]

\* mu_max * C / Ks + C * B: the parentheses of the denominator dropped
monod_unparenthesised(c, b, mu, ks) == RAdd(RDiv(RMul(mu, c), ks), RMul(c, b))

\* monod(C, B, mu_max, Ks) at one node: mu_max * C / (Ks + C) * B
monod(c, b, mu, ks) == RMul(RDiv(RMul(mu, c), RAdd(ks, c)), b)

\* growth = monod(C_mobile, B[n-1, :], mu_max, Ks), pointwise
growth_of(prevC, prevB, kd, mu, ks) ==
    LET Cm == C_mobile(prevC, kd)
    IN  [k \in 1..Len(prevC) |-> monod(Cm[k], prevB[k], mu, ks)]

\* a row left as computed, negative entries included
clamp_missing(row) == row

\* np.maximum(row, 0)
clamp(row) == [k \in 1..Len(row) |-> IF row[k][1] < 0 THEN Zero ELSE row[k]]

\* lines 76-78: the row before the clamp,
\* C[n-1] - velocity*dCdx*dt + dispersion*d2Cdx2*dt - growth*dt
\*   + infiltration_input*dt - liner_loss
raw_C(prevC, growth, vel, disp, rain, leakage) ==
    LET dCdx == gradient(prevC)
        d2Cdx2 == gradient(dCdx)
        inf == infiltration_input(Len(prevC), rain)
        loss == liner_loss(prevC, leakage)
    IN  [k \in 1..Len(prevC) |->
            RSub(RAdd(RSub(RAdd(RSub(prevC[k],
                                     RMul(RMul(vel, dCdx[k]), dt)),
                                RMul(RMul(disp, d2Cdx2[k]), dt)),
                           RMul(growth[k], dt)),
                      RMul(inf[k], dt)),
                 loss[k])]

\* the new concentration row C[n, :] (lines 76-79)
new_C(prevC, growth, vel, disp, rain, leakage) ==
    clamp(raw_C(prevC, growth, vel, disp, rain, leakage))

\* a biomass row that loses the growth instead of gaining it
new_B_subtracting(prevB, growth) ==
    [k \in 1..Len(prevB) |-> RSub(prevB[k], RMul(growth[k], dt))]

\* the new biomass row B[n, :] = B[n-1, :] + growth * dt
new_B(prevB, growth) ==
    [k \in 1..Len(prevB) |-> RAdd(prevB[k], RMul(growth[k], dt))]

\* the gas of this step alone, gas[n-1] left out
new_gas_not_accumulated(prevGas, growth, yield) ==
    RSum([k \in 1..Len(growth) |-> RMul(RMul(growth[k], dt), yield)])

\* the accumulated degraded mass, the yield factor left out
new_gas_without_yield(prevGas, growth, yield) ==
    RAdd(prevGas, RSum([k \in 1..Len(growth) |-> RMul(growth[k], dt)]))

\* gas[n] = gas[n-1] + np.sum(growth * dt * biogas_yield)
new_gas(prevGas, growth, yield) ==
    RAdd(prevGas,
         RSum([k \in 1..Len(growth) |-> RMul(RMul(growth[k], dt), yield)]))

----------------------------------------------------------------------------
(* Inputs: the values the sidebar widgets hand to the computation *)

length_values == MinLength..MaxLength
time_days_values == 1..MaxDays
velocity_values == {Zero, R(1, 20), One}
dispersion_values == {Zero, R(1, 100), One}
rainfall_rate_values == {Zero, <<2, 1>>}
infiltration_coeff_values == {R(1, 2)}
liner_thickness_values == {R(1, 10)}
liner_perm_values == {Zero, R(1, 1728000)}
sorption_kd_values == {Zero, One}
initial_conc_values == {Zero, One, <<2, 1>>, <<100, 1>>}
initial_biomass_values == {<<2, 1>>, <<50, 1>>}
mu_max_values == {Zero, One}
Ks_values == {One}
biogas_yield_values == {R(1, 2)}

\* Runs with biodegradation switched on are explored on small dyadic
\* transport coefficients and small initial values, which keeps the exact
\* fractions of a few Monod steps within TLC's 32-bit integers.
kinetics_inputs ==
    mu_max # Zero =>
        /\ velocity \in {Zero, One}
        /\ dispersion \in {Zero, One}
        /\ initial_conc \in {One, <<2, 1>>}
        /\ initial_biomass = <<2, 1>>

coefficient_inputs ==
    /\ rainfall_rate \in rainfall_rate_values
    /\ infiltration_coeff \in infiltration_coeff_values
    /\ liner_thickness \in liner_thickness_values
    /\ liner_perm \in liner_perm_values
    /\ sorption_kd \in sorption_kd_values
    /\ mu_max \in mu_max_values
    /\ Ks \in Ks_values
    /\ biogas_yield \in biogas_yield_values

\* the combinations of input values explored up to the bounds
explored_inputs ==
    /\ length \in length_values
    /\ time_days \in time_days_values
    /\ velocity \in velocity_values
    /\ dispersion \in dispersion_values
    /\ initial_conc \in initial_conc_values
    /\ initial_biomass \in initial_biomass_values
    /\ coefficient_inputs
    /\ kinetics_inputs

\* one more input: depth 10 m, 5 days, velocity 0.05, dispersion 0.01, no
\* rain, an impermeable liner, Kd = 0, mu_max = 0, 100 mg/L and 50 mg/L
scenario_inputs ==
    /\ length = 10
    /\ time_days = 5
    /\ velocity = R(1, 20)
    /\ dispersion = R(1, 100)
    /\ rainfall_rate = Zero
    /\ infiltration_coeff = R(1, 2)
    /\ liner_thickness = One
    /\ liner_perm = Zero
    /\ sorption_kd = Zero
    /\ initial_conc = <<100, 1>>
    /\ initial_biomass = <<50, 1>>
    /\ mu_max = Zero
    /\ Ks = <<50, 1>>
    /\ biogas_yield = R(1, 2)

\* the state once the sidebar has been read (lines 5-45), before allocation
Init ==
    /\ pc = "init"
    /\ (explored_inputs \/ scenario_inputs)
    /\ C = <<>>
    /\ B = <<>>
    /\ gas = <<>>
    /\ n = 0

----------------------------------------------------------------------------
(* Actions *)

\* lines 48-52: allocate the arrays and set row 0
Initialize ==
    /\ pc = "init"
    /\ C' = [m \in 1..t_steps |->
               [k \in 1..nx |-> IF m = 1 THEN initial_conc ELSE Zero]]
    /\ B' = [m \in 1..t_steps |->
               [k \in 1..nx |-> IF m = 1 THEN initial_biomass ELSE Zero]]
    /\ gas' = [m \in 1..t_steps |-> Zero]
    /\ n' = 1
    /\ pc' = "loop"
    /\ UNCHANGED params

\* lines 59-82: one iteration of the main simulation loop, writing row n
Step ==
    /\ pc = "loop"
    /\ n < t_steps
    /\ LET growth == growth_of(C[n], B[n], sorption_kd, mu_max, Ks)
       IN  /\ C' = [C EXCEPT ![n + 1] =
                       new_C(C[n], growth, velocity, dispersion,
                             rain_input, liner_leakage)]
           /\ B' = [B EXCEPT ![n + 1] = new_B(B[n], growth)]
           /\ gas' = [gas EXCEPT ![n + 1] =
                         new_gas(gas[n], growth, biogas_yield)]
    /\ n' = n + 1
    /\ UNCHANGED <<pc, params>>

\* lines 84-100: the loop is exhausted, the arrays are handed to the plots
Display ==
    /\ pc = "loop"
    /\ n >= t_steps
    /\ pc' = "done"
    /\ UNCHANGED <<params, C, B, gas, n>>

Next == Initialize \/ Step \/ Display

Spec == Init /\ [][Next]_vars

----------------------------------------------------------------------------
(* The stepper applied to rows other than the uniform initial row *)

\* a row of N nodes equal to base everywhere but at node p, where it is
\* base + spike
bump_row(N, base, spike, p) ==
    [k \in 1..N |-> IF k = p THEN RAdd(base, spike) ELSE base]

\* transport without reaction, or reaction without transport; the
\* fractions of a few steps stay within TLC's 32-bit integers
stepper_inputs(spike) ==
    \/ /\ mu_max = Zero
       /\ velocity \in {Zero, One}
       /\ dispersion \in {Zero, R(1, 2), One, <<3, 1>>}
       /\ spike \in {One, <<100, 1>>}
    \/ /\ mu_max = One
       /\ velocity = Zero
       /\ dispersion = Zero
       /\ spike \in {One, <<2, 1>>}

\* the loop of lines 59-82 entered with an arbitrary row 0 in place of the
\* uniform one
InitStep ==
    /\ pc = "loop"
    /\ n = 1
    /\ length \in (MaxStepNx - 1)..MaxStepNx
    /\ time_days \in 2..MaxDays
    /\ initial_conc \in {Zero, One}
    /\ initial_biomass = <<2, 1>>
    /\ coefficient_inputs
    /\ \E spike \in {One, <<2, 1>>, <<100, 1>>}, p \in 1..MaxStepNx :
          /\ p <= length
          /\ stepper_inputs(spike)
          /\ C = [m \in 1..t_steps |->
                    IF m = 1 THEN bump_row(nx, initial_conc, spike, p)
                    ELSE [k \in 1..nx |-> Zero]]
    /\ B = [m \in 1..t_steps |->
              [k \in 1..nx |-> IF m = 1 THEN initial_biomass ELSE Zero]]
    /\ gas = [m \in 1..t_steps |-> Zero]

NextStep == Step \/ Display

SpecStep == InitStep /\ [][NextStep]_vars

----------------------------------------------------------------------------
(* Properties of the whole run (Spec) *)

\* the rows written so far are rows 1..n of the arrays (n = 0 before
\* allocation); the growth the step into row m used
growth_into(m) == growth_of(C[m - 1], B[m - 1], sorption_kd, mu_max, Ks)

\* the row m of C before the clamp was applied to it
raw_into(m) ==
    raw_C(C[m - 1], growth_into(m), velocity, dispersion,
          rain_input, liner_leakage)

\* C1: every entry of every row of the concentration array is >= 0, in
\* every state of the run, also after steps whose raw result is negative.
NonNegativity ==
    \A m \in 1..Len(C) : \A k \in 1..Len(C[m]) : C[m][k][1] >= 0

\* C1 witness: a step whose raw value at some node was negative was taken
\* and the stored entry is 0.
NonNegativityWitness ==
    /\ pc = "loop"
    /\ n >= 2
    /\ \E k \in 1..nx : raw_into(n)[k][1] < 0 /\ C[n][k] = Zero

\* C2: in every written row after the first, the biomass at each node is at
\* least the biomass of the row before; the growth added is never negative.
BiomassMonotone ==
    \A m \in 2..n : \A k \in 1..nx :
        /\ RLe(B[m - 1][k], B[m][k])
        /\ growth_into(m)[k][1] >= 0

\* C2 witness: with mu_max > 0 two steps were taken and the biomass of a
\* node grew strictly in the second.
BiomassMonotoneWitness ==
    /\ n >= 3
    /\ mu_max[1] > 0
    /\ \E k \in 1..nx : RLt(B[2][k], B[3][k])

\* C3: gas[0] = 0 and the cumulative gas never decreases from one written
\* row to the next.
GasMonotone ==
    pc # "init" =>
        /\ gas[1] = Zero
        /\ \A m \in 2..n : RLe(gas[m - 1], gas[m])

\* C3 witness: gas was produced in one step and none in the step after it
\* (the substrate was used up), the total staying where it was.
GasMonotoneWitness ==
    /\ n >= 3
    /\ gas[2][1] > 0
    /\ gas[3] = gas[2]
    /\ \A k \in 1..nx : growth_into(3)[k] = Zero

\* C5: from the uniform initial row, with rainfall = 0, liner permeability
\* = 0 and mu_max = 0, whatever the velocity and the dispersion are, both
\* derivatives of every written row are zero at every node, the two end
\* nodes included, every written row of C equals the initial concentration,
\* every written row of B the initial biomass, and gas stays 0.
UniformFieldStays ==
    (rainfall_rate = Zero /\ liner_perm = Zero /\ mu_max = Zero) =>
        \A m \in 1..n :
            /\ gas[m] = Zero
            /\ \A k \in 1..nx :
                /\ C[m][k] = initial_conc
                /\ B[m][k] = initial_biomass
                /\ gradient(C[m])[k] = Zero
                /\ gradient(gradient(C[m]))[k] = Zero

\* C5 witness: the run with nx = 10, t_steps = 5, velocity 0.05,
\* dispersion 0.01, Kd = 0, C0 = 100, B0 = 50 and no rain, leakage or
\* growth has finished, the last row still at 100.
UniformFieldWitness ==
    /\ pc = "done"
    /\ nx = 10
    /\ t_steps = 5
    /\ n = 5
    /\ velocity = R(1, 20)
    /\ dispersion = R(1, 100)
    /\ sorption_kd = Zero
    /\ initial_conc = <<100, 1>>
    /\ initial_biomass = <<50, 1>>
    /\ rainfall_rate = Zero /\ liner_perm = Zero /\ mu_max = Zero
    /\ \A k \in 1..nx : C[5][k] = <<100, 1>>

\* a parameter value outside the documented domain of the design
invalid_configuration ==
    \/ dx[1] <= 0
    \/ dt[1] <= 0
    \/ Ks[1] <= 0
    \/ liner_perm[1] <= 0
    \/ liner_thickness[1] <= 0
    \/ time_days < 0

other_rain_inputs == {Zero, RMul(RDiv(<<100, 1>>, <<1000, 1>>), R(1, 2))}
other_leakages == {Zero, R(1, 20)}

\* C9: after each step, the row the step wrote is determined by the row before it, and in it
\* the infiltration reaches node 0 only and the liner loss the last node
\* only: every node but the first has the value it would have under any
\* other rain input, every node but the last the value it would have under
\* any other leakage coefficient; the first node differs from its value
\* without rain by rain_input*1000*dt and the last from its value without
\* leakage by liner_leakage times its previous value (before the clamp).
BoundarySourceAndSink ==
    (pc = "loop" /\ n >= 2) =>
        LET prevC == C[n - 1]
            g == growth_into(n)
            dry == raw_C(prevC, g, velocity, dispersion, Zero, liner_leakage)
            tight == raw_C(prevC, g, velocity, dispersion, rain_input, Zero)
        IN  /\ \A r \in other_rain_inputs :
                  LET row == new_C(prevC, g, velocity, dispersion, r,
                                   liner_leakage)
                  IN  \A k \in 2..nx : row[k] = C[n][k]
            /\ \A l \in other_leakages :
                  LET row == new_C(prevC, g, velocity, dispersion,
                                   rain_input, l)
                  IN  \A k \in 1..(nx - 1) : row[k] = C[n][k]
            /\ C[n][1] = clamp(<<RAdd(dry[1],
                                      RMul(RMul(rain_input, <<1000, 1>>), dt))>>)[1]
            /\ C[n][nx] = clamp(<<RSub(tight[nx],
                                       RMul(liner_leakage, prevC[nx]))>>)[1]

\* C9 witness: a step was taken with rain and leakage both on, from a row
\* that is not uniform, with velocity and dispersion on.
BoundarySourceAndSinkWitness ==
    /\ n >= 3
    /\ rain_input[1] > 0
    /\ liner_leakage[1] > 0
    /\ velocity[1] > 0 /\ dispersion[1] > 0
    /\ C[n - 1][1] # C[n - 1][2]
    /\ C[n][1] # C[n][2]
    /\ C[n][nx] # C[n][nx - 1]

\* C10: in every written row, the cumulative gas equals the yield factor
\* times the biomass gained since row 0, summed over the nodes.
GasBiomassBalance ==
    \A m \in 1..n :
        gas[m] = RMul(biogas_yield,
                      RSum([k \in 1..nx |-> RSub(B[m][k], B[1][k])]))

\* C10 witness: gas was produced in two successive steps and the clamp cut
\* a negative raw concentration in the second.
GasBiomassBalanceWitness ==
    /\ n >= 3
    /\ gas[2][1] > 0
    /\ RLt(gas[2], gas[3])
    /\ \E k \in 1..nx : raw_into(3)[k][1] < 0

----------------------------------------------------------------------------
(* Properties of the stepper on arbitrary rows (SpecStep) *)

\* C4: with velocity, dispersion, rainfall, liner permeability and mu_max
\* all 0, every written row of C equals row 0, whatever row 0 is.
ZeroInputSteadyState ==
    (/\ velocity = Zero /\ dispersion = Zero /\ rainfall_rate = Zero
     /\ liner_perm = Zero /\ mu_max = Zero) =>
        \A m \in 1..n : C[m] = C[1]

\* C4 witness: a run with all five inputs 0 from a non-uniform, nowhere
\* zero row has finished after at least two steps.
ZeroInputSteadyStateWitness ==
    /\ pc = "done"
    /\ n >= 3
    /\ velocity = Zero /\ dispersion = Zero /\ rainfall_rate = Zero
    /\ liner_perm = Zero /\ mu_max = Zero
    /\ \E k \in 1..nx : C[1][k] # C[1][nx]
    /\ \A k \in 1..nx : C[1][k][1] > 0
    /\ C[n] = C[1]

\* row 0 is zero everywhere but at node i, and i has at least three nodes
\* on either side
spike_at(i) ==
    /\ i \in 4..(nx - 3)
    /\ C[1][i][1] > 0
    /\ \A k \in 1..nx : k # i => C[1][k] = Zero

\* one step of pure dispersion has been taken from row 0
pure_dispersion_step ==
    /\ pc = "loop"
    /\ n = 2
    /\ velocity = Zero /\ mu_max = Zero /\ rainfall_rate = Zero
    /\ liner_perm = Zero
    /\ dispersion[1] > 0

\* C6 as claimed: one step of pure dispersion from a single interior spike
\* lowers the spike node, raises both adjacent nodes and keeps the sum of
\* the row.
SpikeSpreadsToAdjacentNodes ==
    \A i \in 1..nx :
        (pure_dispersion_step /\ spike_at(i)) =>
            /\ RLt(C[2][i], C[1][i])
            /\ RLt(C[1][i - 1], C[2][i - 1])
            /\ RLt(C[1][i + 1], C[2][i + 1])
            /\ RSum(C[2]) = RSum(C[1])

\* C6 as amended: for a dispersion coefficient of at most 2, one step of
\* pure dispersion from a single interior spike of height S lowers the
\* spike node by dispersion*S/2, leaves both adjacent nodes (and every
\* node further than two away) at 0, raises the two nodes at distance two
\* by dispersion*S/4 each, and keeps the sum of the row.
SpikeSpreadsToSecondNeighbours ==
    \A i \in 1..nx :
        (pure_dispersion_step /\ spike_at(i) /\ RLe(dispersion, <<2, 1>>)) =>
            LET S == C[1][i]
                moved == RMul(dispersion, RDiv(S, <<4, 1>>))
            IN  /\ RLt(C[2][i], S)
                /\ C[2][i] = RSub(S, RMul(<<2, 1>>, moved))
                /\ C[2][i - 1] = Zero
                /\ C[2][i + 1] = Zero
                /\ C[2][i - 2] = moved
                /\ C[2][i + 2] = moved
                /\ \A k \in 1..nx : (k < i - 2 \/ k > i + 2) => C[2][k] = Zero
                /\ RSum(C[2]) = RSum(C[1])

\* C6 witness: the step was taken from a spike of height 100 with
\* dispersion 1/2, and the nodes at distance two now hold mass.
SpikeSpreadsWitness ==
    \E i \in 1..nx :
        /\ pure_dispersion_step
        /\ spike_at(i)
        /\ dispersion = R(1, 2)
        /\ C[1][i] = <<100, 1>>
        /\ C[2][i - 2][1] > 0
        /\ C[2][i + 2][1] > 0

\* values monod is probed with besides the ones the steps used
monod_probes == {Zero, R(1, 2), <<100, 1>>}
biomass_probes == {Zero, One, <<500, 1>>}
mu_max_probes == {R(1, 1000), R(1, 10), One}
Ks_probes == {R(1, 10), <<50, 1>>, <<500, 1>>}

\* monod is 0 at concentration 0, and for biomass b > 0 strictly increasing
\* over the concentrations cs and never above mu * b
monod_boundary_on(cs, b, mu, ks) ==
    /\ monod(Zero, b, mu, ks) = Zero
    /\ b[1] > 0 =>
         \A c1 \in cs, c2 \in cs :
             RLt(c1, c2) =>
                 /\ RLt(monod(c1, b, mu, ks), monod(c2, b, mu, ks))
                 /\ RLe(monod(c2, b, mu, ks), RMul(mu, b))

\* C7: monod is 0 at concentration 0 for every biomass >= 0, and for
\* biomass > 0 it is strictly increasing in the concentration and never
\* above mu_max * biomass: for the mu_max > 0 and Ks > 0 of the run on the
\* mobile concentrations and biomasses the last step fed to monod, and for
\* the probe values of mu_max, Ks, biomass and concentration.
MonodBoundary ==
    (pc = "loop" /\ n >= 2 /\ mu_max[1] > 0 /\ Ks[1] > 0) =>
        LET Cm == C_mobile(C[n - 1], sorption_kd)
            cs == {Cm[k] : k \in 1..nx} \cup monod_probes
            bs == {B[n - 1][k] : k \in 1..nx} \cup {Zero}
        IN  /\ \A b \in bs : monod_boundary_on(cs, b, mu_max, Ks)
            /\ \A mu \in mu_max_probes, ks \in Ks_probes, b \in biomass_probes :
                  monod_boundary_on(monod_probes, b, mu, ks)

\* C7 witness: a step with mu_max > 0 was taken from a row holding a node
\* at concentration 0 and a node at a positive concentration, of equal
\* biomass; the biomass of the first did not change, the second gained
\* biomass, and no more than mu_max times its biomass.
MonodBoundaryWitness ==
    /\ pc = "loop"
    /\ n >= 2
    /\ mu_max[1] > 0
    /\ \E j \in 1..nx, k \in 1..nx :
          /\ C[n - 1][j] = Zero
          /\ C[n - 1][k][1] > 0
          /\ B[n - 1][j] = B[n - 1][k]
          /\ B[n][j] = B[n - 1][j]
          /\ RLt(B[n - 1][k], B[n][k])
          /\ RLe(RSub(B[n][k], B[n - 1][k]), RMul(mu_max, B[n - 1][k]))

====
